---- MODULE Spec2Model ----
(***************************************************************************)
(* Chained (scaling) Bloom filter of src/types/redis_bloom_chain.cc:       *)
(* BloomChain::Reserve, Add, MAdd, Exists, MExists and Info over a         *)
(* key-value store with atomic write batches, snapshot reads and a         *)
(* per-key lock manager.                                                   *)
(*                                                                         *)
(* The store is three variables (metadata column family, default column    *)
(* family holding the filter blobs, write-ahead log).  Every thread runs   *)
(* one operation at a time; an operation is cut into steps exactly at the  *)
(* points where it touches the store or the lock manager, so that the      *)
(* states between two steps are the states other threads can observe.      *)
(***************************************************************************)
EXTENDS Integers, Sequences, FiniteSets, TLC

\* ------------------------------------------------------------------ bounds
MaxCalls == 3          \* operations started in one behaviour
MaxItems == 2          \* items of one MAdd / MExists call
MaxCapacity == 4       \* base capacity of the chains the append step is applied to
MaxFilters == 4        \* filters of those chains, besides the counts next to 2^16

\* ------------------------------------------------------------ input domains
Threads == {"t1", "t2"}
Keys == {"k"}
Items == {"a", "b", "c"}
Capacities == {0, 1}
\* error_rate in percent: 1 is 0.01, 100 is 1.0 (outside the open interval (0, 1))
ErrorRates == {1, 100}
Expansions == {0, 1, 2}

RECURSIVE SeqsUpTo(_, _)
SeqsUpTo(S, n) ==
  IF n = 0 THEN {<<>>}
  ELSE LET shorter == SeqsUpTo(S, n - 1)
       IN shorter \cup {Append(s, x) : s \in {t \in shorter : Len(t) = n - 1}, x \in S}

ItemLists == SeqsUpTo(Items, MaxItems)

\* ---------------------------------------------------------------- statuses
kOK == "OK"
kNotFound == "NotFound"
kInvalidArgument == "InvalidArgument"
kIOError == "IOError"

\* BloomFilterAddResult
kOk == "Ok"
kExist == "Exists"
kFull == "Full"

\* defaults used by MAdd when it creates the chain
kBFDefaultErrorRate == 1
kBFDefaultInitCapacity == 100
kBFDefaultExpansion == 2

\* ------------------------------------------- block-split Bloom filter (BSBF)
\* The filter primitive lives in types/bloom_filter.h.  It is modelled from its
\* description with the word sizes scaled down: a hash is 8 bits (upper half
\* selects the block, lower half the bits), a block has kWordsPerBlock words of
\* kBitsPerWord bits, and a blob's byte length stays 32 bytes per block.
kBytesPerBlock == 32
kHalfHash == 16
kWordsPerBlock == 2
kBitsPerWord == 4
SALT == <<3, 5>>

\* BlockSplitBloomFilter::Hash: a fixed 8-bit hash per item.
Hash(item) ==
  CASE item = "a" -> 1      \* 0x01
    [] item = "b" -> 19     \* 0x13
    [] item = "c" -> 38     \* 0x26

\* -log2(p) / ln(2) in thousandths of a bit, per error rate in percent
BitsPerItemMilli(error_rate) ==
  CASE error_rate = 1 -> 9585
    [] error_rate = 100 -> 0

CeilDiv(a, b) == (a + b - 1) \div b

Max(a, b) == IF a >= b THEN a ELSE b

\* optimal_num_bytes(n, p): bits rounded up to whole blocks, at least one block
OptimalNumOfBytes(capacity, error_rate) ==
  kBytesPerBlock
    * Max(1, CeilDiv(capacity * BitsPerItemMilli(error_rate), 256 * 1000))

\* new(num_bytes): an all-zero blob of that length
CreateBlockSplitBloomFilter(num_bytes) == [nbytes |-> num_bytes, bits |-> {}]

NumBlocks(bf_data) == bf_data.nbytes \div kBytesPerBlock

BlockIndex(hash, bf_data) == ((hash \div kHalfHash) * NumBlocks(bf_data)) \div kHalfHash

\* the bit of word w that the hash selects: (lower(h) * SALT[w]) >> shift
MaskBit(hash, w) ==
  (((hash % kHalfHash) * SALT[w]) % kHalfHash) \div (kHalfHash \div kBitsPerWord)

HashBits(hash, bf_data) ==
  {<<BlockIndex(hash, bf_data), w, MaskBit(hash, w)>> : w \in 1..kWordsPerBlock}

InsertHash(bf_data, hash) == [bf_data EXCEPT !.bits = @ \cup HashBits(hash, bf_data)]

FindHash(bf_data, hash) == HashBits(hash, bf_data) \subseteq bf_data.bits

\* ------------------------------------------------------- chain metadata
\* b^e, by squaring so that an exponent near 2^16 is within reach
RECURSIVE Pow(_, _)
Pow(b, e) ==
  IF e = 0 THEN 1
  ELSE LET h == Pow(b, e \div 2)
       IN IF e % 2 = 0 THEN h * h ELSE b * h * h

\* sum of base_capacity * expansion^i for i < n; with expansion 1 every term is
\* base_capacity
RECURSIVE SumCapacity(_, _)
SumCapacity(md, n) ==
  IF md.expansion = 1 THEN md.base_capacity * n
  ELSE IF n = 0 THEN 0
  ELSE SumCapacity(md, n - 1) + md.base_capacity * Pow(md.expansion, n - 1)

\* BloomChainMetadata::GetCapacity: sum of base_capacity * expansion^i, i < n_filters
GetCapacity(md) == SumCapacity(md, md.n_filters)

\* BloomChainMetadata::IsScaling
IsScaling(md) == md.expansion # 0

\* ------------------------------------------------------------------ state
VARIABLES
  meta,      \* metadata column family: ns_key -> encoded BloomChainMetadata
  blobs,     \* default column family: internal key -> filter blob
  wal,       \* log data of the committed write batches, oldest first
  lock,      \* lock manager: ns_key -> holder, or NoThread
  th,        \* per thread: position, arguments and locals of its running call;
             \* hist, mustSee, commits (write batches the call has committed)
             \* and seen (the blobs stored when an MExists read the metadata)
             \* are history
  last,      \* the call that returned last, with its arguments and results
  calls,     \* operations started so far
  added,     \* per key: items a successful MAdd answered Ok
  okCount    \* per key: number of Ok results of successful MAdd calls

vars == <<meta, blobs, wal, lock, th, last, calls, added, okCount>>

NoThread == "none"

\* AppendNamespacePrefix: the namespace is a fixed prefix
AppendNamespacePrefix(user_key) == <<"ns", user_key>>

\* Metadata::generateVersion: a version no stored chain carries
GenerateVersion ==
  1 + Max(0, CHOOSE v \in {0} \cup {meta[k].version : k \in DOMAIN meta} :
               \A k \in DOMAIN meta : meta[k].version <= v)

\* a freshly constructed BloomChainMetadata
NewMetadata ==
  [version |-> GenerateVersion, error_rate |-> 0, base_capacity |-> 0,
   expansion |-> 0, n_filters |-> 0, size |-> 0, bloom_bytes |-> 0]

\* Database::GetMetadata: NotFound when the key holds no metadata (engine read
\* errors are left out; engine write errors are modelled, see Write)
getBloomChainMetadata(ns_key) ==
  IF ns_key \in DOMAIN meta
  THEN [status |-> kOK, metadata |-> meta[ns_key]]
  ELSE [status |-> kNotFound, metadata |-> NewMetadata]

\* InternalKey(ns_key, sub_key, version).Encode(): injective in its three parts
getBFKey(ns_key, metadata, filters_index) == <<ns_key, metadata.version, filters_index>>

getBFKeyList(ns_key, metadata) ==
  [i \in 1..metadata.n_filters |-> getBFKey(ns_key, metadata, i - 1)]

\* snapshot read of every blob key; the first failing Get ends it
getBFDataList(bf_key_list) ==
  IF \A i \in 1..Len(bf_key_list) : bf_key_list[i] \in DOMAIN blobs
  THEN [status |-> kOK, bf_data_list |-> [i \in 1..Len(bf_key_list) |-> blobs[bf_key_list[i]]]]
  ELSE [status |-> kNotFound, bf_data_list |-> <<>>]

getItemHashList(items) == [i \in 1..Len(items) |-> Hash(items[i])]

\* ----------------------------------------------------------- write batches
LogData(tokens) == [op |-> "log", data |-> tokens]
PutMeta(ns_key, metadata) == [op |-> "putmeta", key |-> ns_key, value |-> metadata]
Put(bf_key, bf_data) == [op |-> "put", key |-> bf_key, value |-> bf_data]

Upsert(f, k, v) == [x \in DOMAIN f \cup {k} |-> IF x = k THEN v ELSE f[x]]

RECURSIVE ApplyBatch(_, _)
ApplyBatch(db, batch) ==
  IF batch = <<>> THEN db
  ELSE LET e == Head(batch)
           next == CASE e.op = "log" -> [db EXCEPT !.wal = Append(@, e.data)]
                     [] e.op = "putmeta" -> [db EXCEPT !.meta = Upsert(@, e.key, e.value)]
                     [] e.op = "put" -> [db EXCEPT !.blobs = Upsert(@, e.key, e.value)]
       IN ApplyBatch(next, Tail(batch))

\* storage_->Write: the whole batch or nothing; io is the engine's outcome
Write(batch, io) ==
  IF io = kOK
  THEN ApplyBatch([meta |-> meta, blobs |-> blobs, wal |-> wal], batch)
  ELSE [meta |-> meta, blobs |-> blobs, wal |-> wal]

\* ------------------------------------------------------ chain primitives
Last(s) == s[Len(s)]

\* mutant: the expansion argument is not stored
createBloomChainExpansionDropped(ns_key, error_rate, capacity, expansion, metadata) ==
  LET md == [metadata EXCEPT !.n_filters = 1, !.size = 0,
                             !.error_rate = error_rate, !.base_capacity = capacity,
                             !.bloom_bytes = OptimalNumOfBytes(capacity, error_rate)]
      bf == CreateBlockSplitBloomFilter(md.bloom_bytes)
  IN [metadata |-> md,
      batch |-> <<LogData(<<"createBloomChain">>), PutMeta(ns_key, md),
                  Put(getBFKey(ns_key, md, md.n_filters - 1), bf)>>]

\* lines 70-94, up to the Write: the metadata of a one-filter chain and the
\* batch that stores it together with its empty filter
createBloomChain(ns_key, error_rate, capacity, expansion, metadata) ==
  LET md == [metadata EXCEPT !.n_filters = 1, !.expansion = expansion, !.size = 0,
                             !.error_rate = error_rate, !.base_capacity = capacity,
                             !.bloom_bytes = OptimalNumOfBytes(capacity, error_rate)]
      bf == CreateBlockSplitBloomFilter(md.bloom_bytes)
  IN [metadata |-> md,
      batch |-> <<LogData(<<"createBloomChain">>), PutMeta(ns_key, md),
                  Put(getBFKey(ns_key, md, md.n_filters - 1), bf)>>]

\* n_filters is a 16-bit field
kU16Modulus == 65536

\* mutant: the new filter's bytes are not added to bloom_bytes
createBloomFilterInBatchBytesKept(ns_key, metadata, batch) ==
  LET bloom_filter_bytes ==
        OptimalNumOfBytes(metadata.base_capacity * Pow(metadata.expansion, metadata.n_filters),
                          metadata.error_rate)
      md == [metadata EXCEPT !.n_filters = (@ + 1) % kU16Modulus]
  IN [metadata |-> md,
      bf_data |-> CreateBlockSplitBloomFilter(bloom_filter_bytes),
      batch |-> Append(batch, PutMeta(ns_key, md))]

\* lines 96-109: size the next filter, count it in the metadata, stage the metadata.
\* Within the bounds base_capacity * expansion^n_filters stays below 2^31, where
\* the cast to uint32_t changes nothing; n_filters keeps its 16 bits.
createBloomFilterInBatch(ns_key, metadata, batch) ==
  LET bloom_filter_bytes ==
        OptimalNumOfBytes(metadata.base_capacity * Pow(metadata.expansion, metadata.n_filters),
                          metadata.error_rate)
      md == [metadata EXCEPT !.n_filters = (@ + 1) % kU16Modulus,
                             !.bloom_bytes = @ + bloom_filter_bytes]
  IN [metadata |-> md,
      bf_data |-> CreateBlockSplitBloomFilter(bloom_filter_bytes),
      batch |-> Append(batch, PutMeta(ns_key, md))]

\* mutant: the insert replaces the blob's content with the item's bits
bloomAddOverwrites(item_hash, bf_data) == [bf_data EXCEPT !.bits = HashBits(item_hash, bf_data)]

\* lines 111-114
bloomAdd(item_hash, bf_data) == InsertHash(bf_data, item_hash)

bloomCheck(item_hash, bf_data) == FindHash(bf_data, item_hash)

\* lines 174-177: probe newest to oldest, stop at the first hit
RECURSIVE ProbeFrom(_, _, _)
ProbeFrom(item_hash, bf_data_list, ii) ==
  IF ii < 1 THEN FALSE
  ELSE IF bloomCheck(item_hash, bf_data_list[ii]) THEN TRUE
       ELSE ProbeFrom(item_hash, bf_data_list, ii - 1)

\* mutant: only the newest filter is probed
ChainCheckNewestOnly(item_hash, bf_data_list) ==
  Len(bf_data_list) > 0 /\ bloomCheck(item_hash, Last(bf_data_list))

ChainCheck(item_hash, bf_data_list) == ProbeFrom(item_hash, bf_data_list, Len(bf_data_list))

\* mutant: the capacity test is off by one
ExceedsCapacityOffByOne(metadata) == metadata.size > GetCapacity(metadata)

\* line 183
ExceedsCapacity(metadata) == metadata.size + 1 > GetCapacity(metadata)

\* mutant: the blob that was newest before the append is not staged
StagePrevNewestSkipped(batch, bf_key_list, bf_data_list) == batch

\* line 185: the newest blob goes into the batch before a filter is appended
StagePrevNewest(batch, bf_key_list, bf_data_list) ==
  Append(batch, Put(Last(bf_key_list), Last(bf_data_list)))

\* lines 185-189
AppendFilter(ns_key, st) ==
  LET staged == StagePrevNewest(st.batch, st.bf_key_list, st.bf_data_list)
      c == createBloomFilterInBatch(ns_key, st.metadata, staged)
  IN [st EXCEPT !.metadata = c.metadata,
                !.batch = c.batch,
                !.bf_data_list = Append(@, c.bf_data),
                !.bf_key_list = Append(@, getBFKey(ns_key, c.metadata, c.metadata.n_filters - 1))]

\* lines 195-197
InsertItem(st, i, item_hash) ==
  [st EXCEPT !.bf_data_list[Len(st.bf_data_list)] = bloomAdd(item_hash, @),
             !.rets[i] = kOk,
             !.metadata.size = @ + 1]

\* lines 171-198: one iteration of the loop over the items
MAddItem(ns_key, st, i, item_hash) ==
  IF ChainCheck(item_hash, st.bf_data_list)
  THEN [st EXCEPT !.rets[i] = kExist]
  ELSE IF ExceedsCapacity(st.metadata)
       THEN IF IsScaling(st.metadata)
            THEN InsertItem(AppendFilter(ns_key, st), i, item_hash)
            ELSE [st EXCEPT !.rets[i] = kFull]
       ELSE InsertItem(st, i, item_hash)

\* what the loop holds in memory before an iteration (kept for the properties)
Snapshot(st) == [metadata |-> st.metadata, bf_data_list |-> st.bf_data_list]

\* lines 170-199; hist records the in-memory chain before every iteration
RECURSIVE MAddLoop(_, _, _, _)
MAddLoop(ns_key, st, item_hash_list, i) ==
  IF i > Len(item_hash_list) THEN [st EXCEPT !.hist = Append(@, Snapshot(st))]
  ELSE MAddLoop(ns_key,
                MAddItem(ns_key, [st EXCEPT !.hist = Append(@, Snapshot(st))], i,
                         item_hash_list[i]),
                item_hash_list, i + 1)

\* mutant: the final staging forgets the newest blob
StageFinalMetadataOnly(ns_key, st, origin_size) ==
  IF st.metadata.size # origin_size
  THEN Append(st.batch, PutMeta(ns_key, st.metadata))
  ELSE st.batch

\* mutant: the final staging takes the first blob for the newest
StageFinalFirstBlob(ns_key, st, origin_size) ==
  IF st.metadata.size # origin_size
  THEN st.batch \o <<PutMeta(ns_key, st.metadata),
                     Put(st.bf_key_list[1], st.bf_data_list[1])>>
  ELSE st.batch

\* lines 201-206: metadata and newest blob are staged when size changed
StageFinal(ns_key, st, origin_size) ==
  IF st.metadata.size # origin_size
  THEN st.batch \o <<PutMeta(ns_key, st.metadata),
                     Put(Last(st.bf_key_list), Last(st.bf_data_list))>>
  ELSE st.batch

\* lines 155-206 after the blobs are read: the final in-memory state and batch
MAddCompute(ns_key, metadata, bf_key_list, bf_data_list, items, rets) ==
  LET st0 == [metadata |-> metadata, bf_key_list |-> bf_key_list,
              bf_data_list |-> bf_data_list,
              batch |-> <<LogData(<<"insert">>)>>, rets |-> rets, hist |-> <<>>]
      st == MAddLoop(ns_key, st0, getItemHashList(items), 1)
  IN [st EXCEPT !.batch = StageFinal(ns_key, st, metadata.size)]

\* lines 238-245: exists[i] is overwritten by every probe made for item i
RECURSIVE ProbeExists(_, _, _, _)
ProbeExists(prev, item_hash, bf_data_list, ii) ==
  IF ii < 1 THEN prev
  ELSE IF bloomCheck(item_hash, bf_data_list[ii]) THEN TRUE
       ELSE ProbeExists(FALSE, item_hash, bf_data_list, ii - 1)

MExistsCompute(bf_data_list, items, exists) ==
  [i \in 1..Len(items) |->
     ProbeExists(exists[i], Hash(items[i]), bf_data_list, Len(bf_data_list))]

\* ---------------------------------------------------------------- threads
NsKeys == {AppendNamespacePrefix(k) : k \in Keys}

IoOutcomes == {kOK, kIOError}

ZeroMetadata ==
  [version |-> 0, error_rate |-> 0, base_capacity |-> 0, expansion |-> 0,
   n_filters |-> 0, size |-> 0, bloom_bytes |-> 0]

ZeroInfo == [capacity |-> 0, bloom_bytes |-> 0, n_filters |-> 0, size |-> 0, expansion |-> 0]

IdleThread ==
  [pc |-> "idle", op |-> "none", key |-> "none", items |-> <<>>,
   capacity |-> 0, error_rate |-> 0, expansion |-> 0,
   metadata |-> ZeroMetadata, status |-> "none",
   rets |-> <<>>, exists |-> <<>>, info |-> ZeroInfo,
   hist |-> <<>>, mustSee |-> {}, commits |-> 0, seen |-> <<>>]

Init ==
  /\ meta = <<>>
  /\ blobs = <<>>
  /\ wal = <<>>
  /\ lock = [n \in NsKeys |-> NoThread]
  /\ th = [t \in Threads |-> IdleThread]
  /\ last = IdleThread
  /\ calls = 0
  /\ added = [k \in Keys |-> {}]
  /\ okCount = [k \in Keys |-> 0]

CanStart(t) == th[t].pc = "idle" /\ calls < MaxCalls

\* the call of thread t returns: its arguments, locals and results become the
\* last returned call and the thread is free for the next call
Returns(t, call) ==
  /\ th' = [th EXCEPT ![t] = IdleThread]
  /\ last' = [call EXCEPT !.pc = "done"]

\* mutant: the guard does not wait for the holder
LockFreeAlways(ns_key) == TRUE

\* LockGuard's constructor returns once no other thread holds the key's lock
LockFree(ns_key) == lock[ns_key] = NoThread

\* mutant: the lock is still held after the return
UnlockForgotten(ns_key) == lock

\* LockGuard's destructor, run on every return of the guarded function
Unlock(ns_key) == [lock EXCEPT ![ns_key] = NoThread]

Commit(db) == meta' = db.meta /\ blobs' = db.blobs /\ wal' = db.wal

Committed(io) == IF io = kOK THEN 1 ELSE 0

\* the vectors a caller of MExists can pass for the results of the items
ResultVectors(items) == [1..Len(items) -> BOOLEAN]

OkItems(items, rets) == {items[i] : i \in {j \in 1..Len(items) : rets[j] = kOk}}

OkResults(rets) == Cardinality({i \in 1..Len(rets) : rets[i] = kOk})

\* ---------------------------------------------------------------- Reserve
\* A call's arguments other than the key are drawn in the step that first reads
\* them: nothing a thread did before depends on them, so the behaviours are
\* those of calls whose arguments were fixed at entry.

\* a caller invokes Reserve; the thread then waits for the key's lock
StartReserve(t, k) ==
  /\ CanStart(t)
  /\ th' = [th EXCEPT ![t] = [IdleThread EXCEPT !.pc = "wait", !.op = "Reserve", !.key = k]]
  /\ calls' = calls + 1
  /\ UNCHANGED <<meta, blobs, wal, lock, last, added, okCount>>

\* lines 122-126: the lock is taken and the metadata read
ReserveEnter(t) ==
  /\ th[t].pc = "wait" /\ th[t].op = "Reserve"
  /\ LET ns_key == AppendNamespacePrefix(th[t].key)
     IN /\ LockFree(ns_key)
        /\ lock' = [lock EXCEPT ![ns_key] = t]
        /\ LET r == getBloomChainMetadata(ns_key)
           IN th' = [th EXCEPT ![t].pc = "reserve", ![t].status = r.status,
                               ![t].metadata = r.metadata]
  /\ UNCHANGED <<meta, blobs, wal, last, calls, added, okCount>>

\* mutant: the existence check is lost
KeyAlreadyExistsIgnored(status) == FALSE

\* line 128
KeyAlreadyExists(status) == status # kNotFound

\* lines 127-133: reject an existing key, else create the chain; the guard goes
ReserveFinish(t, capacity, error_rate, expansion) ==
  /\ th[t].pc = "reserve"
  /\ LET ns_key == AppendNamespacePrefix(th[t].key)
         s == th[t].status
         call == [th[t] EXCEPT !.capacity = capacity, !.error_rate = error_rate,
                               !.expansion = expansion]
     IN /\ lock' = Unlock(ns_key)
        /\ IF s # kOK /\ s # kNotFound
           THEN /\ Returns(t, call)
                /\ UNCHANGED <<meta, blobs, wal>>
           ELSE IF KeyAlreadyExists(s)
           THEN /\ Returns(t, [call EXCEPT !.status = kInvalidArgument])
                /\ UNCHANGED <<meta, blobs, wal>>
           ELSE \E io \in IoOutcomes :
                  LET c == createBloomChain(ns_key, error_rate, capacity, expansion,
                                            th[t].metadata)
                  IN /\ Commit(Write(c.batch, io))
                     /\ Returns(t, [call EXCEPT !.status = io, !.metadata = c.metadata,
                                                !.commits = @ + Committed(io)])
  /\ UNCHANGED <<calls, added, okCount>>

\* ------------------------------------------------------------- Add / MAdd
StartMAdd(t, k) ==
  /\ CanStart(t)
  /\ th' = [th EXCEPT ![t] = [IdleThread EXCEPT !.pc = "wait", !.op = "MAdd", !.key = k]]
  /\ calls' = calls + 1
  /\ UNCHANGED <<meta, blobs, wal, lock, last, added, okCount>>

\* lines 135-140: Add is MAdd of one item with a one-element result vector
StartAdd(t, k) ==
  /\ CanStart(t)
  /\ th' = [th EXCEPT ![t] = [IdleThread EXCEPT !.pc = "wait", !.op = "Add", !.key = k]]
  /\ calls' = calls + 1
  /\ UNCHANGED <<meta, blobs, wal, lock, last, added, okCount>>

\* lines 144-153: lock, read the metadata, create the default chain when absent
MAddEnter(t) ==
  /\ th[t].pc = "wait" /\ th[t].op \in {"MAdd", "Add"}
  /\ LET ns_key == AppendNamespacePrefix(th[t].key)
     IN /\ LockFree(ns_key)
        /\ \E ioWrite \in IoOutcomes :
             LET r == getBloomChainMetadata(ns_key)
                 c == createBloomChain(ns_key, kBFDefaultErrorRate, kBFDefaultInitCapacity,
                                       kBFDefaultExpansion, r.metadata)
                 s == IF r.status = kNotFound THEN ioWrite ELSE r.status
                 md == IF r.status = kNotFound THEN c.metadata ELSE r.metadata
                 n == IF r.status = kNotFound THEN Committed(ioWrite) ELSE 0
                 call == [th[t] EXCEPT !.status = s, !.metadata = md, !.commits = @ + n]
             IN /\ IF r.status = kNotFound
                   THEN Commit(Write(c.batch, ioWrite))
                   ELSE UNCHANGED <<meta, blobs, wal>>
                /\ IF s # kOK
                   THEN /\ Returns(t, call)
                        /\ UNCHANGED lock
                   ELSE /\ th' = [th EXCEPT ![t] = [call EXCEPT !.pc = "madd"]]
                        /\ lock' = [lock EXCEPT ![ns_key] = t]
                        /\ UNCHANGED last
  /\ UNCHANGED <<calls, added, okCount>>

\* lines 155-208 for the items and the caller's result vector: read the blobs,
\* run the loop, commit the batch, drop the lock
MAddRun(t, items, rets) ==
  /\ th[t].pc = "madd"
  /\ LET ns_key == AppendNamespacePrefix(th[t].key)
         bf_key_list == getBFKeyList(ns_key, th[t].metadata)
         d == getBFDataList(bf_key_list)
         call == [th[t] EXCEPT !.items = items, !.rets = rets]
     IN /\ lock' = Unlock(ns_key)
        /\ IF d.status # kOK
           THEN /\ Returns(t, [call EXCEPT !.status = d.status])
                /\ UNCHANGED <<meta, blobs, wal, added, okCount>>
           ELSE \E io \in IoOutcomes :
                  LET st == MAddCompute(ns_key, th[t].metadata, bf_key_list,
                                        d.bf_data_list, items, rets)
                  IN /\ Commit(Write(st.batch, io))
                     /\ Returns(t, [call EXCEPT !.status = io, !.metadata = st.metadata,
                                                !.rets = st.rets, !.hist = st.hist,
                                                !.commits = @ + Committed(io)])
                     /\ IF io = kOK
                        THEN /\ added' = [added EXCEPT ![th[t].key] =
                                            @ \cup OkItems(items, st.rets)]
                             /\ okCount' = [okCount EXCEPT ![th[t].key] =
                                              @ + OkResults(st.rets)]
                        ELSE UNCHANGED <<added, okCount>>
  /\ UNCHANGED calls

\* MAdd with a result vector of one slot per item
MAddBody(t, items) ==
  th[t].op = "MAdd" /\ MAddRun(t, items, [i \in 1..Len(items) |-> kOk])

\* lines 136-139: Add passes one item and tmp{kOk}
AddBody(t, item) ==
  th[t].op = "Add" /\ MAddRun(t, <<item>>, <<kOk>>)

\* -------------------------------------------------------- Exists / MExists
\* lines 218-226 for the items and the caller's result vector: no lock; the
\* metadata is read first
\* the blobs the store holds for the filters the metadata counts
StoredAt(k, metadata) ==
  getBFDataList(getBFKeyList(AppendNamespacePrefix(k), metadata)).bf_data_list

\* mutant: the result vector is left as the caller passed it
FillFalseSkipped(exists) == exists

\* line 223: std::fill(exists->begin(), exists->end(), false)
FillFalse(exists) == [i \in 1..Len(exists) |-> FALSE]

MExistsEnter(t, op, k, items, exists) ==
  /\ calls' = calls + 1
  /\ LET r == getBloomChainMetadata(AppendNamespacePrefix(k))
         call == [IdleThread EXCEPT !.op = op, !.key = k, !.mustSee = added[k],
                                    !.status = r.status]
     IN IF r.status = kNotFound
        THEN Returns(t, [call EXCEPT !.status = kOK, !.items = items,
                                     !.exists = FillFalse(exists)])
        ELSE IF r.status # kOK
        THEN Returns(t, [call EXCEPT !.items = items, !.exists = exists])
        ELSE /\ th' = [th EXCEPT ![t] = [call EXCEPT !.pc = "mexists",
                                                     !.metadata = r.metadata,
                                                     !.seen = StoredAt(k, r.metadata)]]
             /\ UNCHANGED last
  /\ UNCHANGED <<meta, blobs, wal, lock, added, okCount>>

\* MExists with the caller's result vector: one slot per item, any content
MExistsRead(t, k, items, exists) ==
  CanStart(t) /\ MExistsEnter(t, "MExists", k, items, exists)

\* lines 210-215: Exists passes one item and tmp{false}
ExistsRead(t, k, item) ==
  CanStart(t) /\ MExistsEnter(t, "Exists", k, <<item>>, <<FALSE>>)

\* lines 228-247: snapshot-read the blobs the metadata names and probe them
MExistsRun(t, items, exists) ==
  /\ th[t].pc = "mexists"
  /\ LET ns_key == AppendNamespacePrefix(th[t].key)
         d == getBFDataList(getBFKeyList(ns_key, th[t].metadata))
         call == [th[t] EXCEPT !.items = items, !.exists = exists]
     IN IF d.status # kOK
        THEN Returns(t, [call EXCEPT !.status = d.status])
        ELSE Returns(t, [call EXCEPT !.status = kOK,
                                     !.exists = MExistsCompute(d.bf_data_list, items, exists)])
  /\ UNCHANGED <<meta, blobs, wal, lock, calls, added, okCount>>

MExistsProbe(t, items, exists) ==
  th[t].op = "MExists" /\ MExistsRun(t, items, exists)

ExistsProbe(t, item) ==
  th[t].op = "Exists" /\ MExistsRun(t, <<item>>, <<FALSE>>)

\* ------------------------------------------------------------------- Info
\* lines 250-264
Info(t, k) ==
  /\ CanStart(t)
  /\ calls' = calls + 1
  /\ LET r == getBloomChainMetadata(AppendNamespacePrefix(k))
         call == [IdleThread EXCEPT !.op = "Info", !.key = k, !.status = r.status]
     IN IF r.status # kOK
        THEN Returns(t, call)
        ELSE Returns(t, [call EXCEPT !.info =
                           [capacity |-> GetCapacity(r.metadata),
                            bloom_bytes |-> r.metadata.bloom_bytes,
                            n_filters |-> r.metadata.n_filters,
                            size |-> r.metadata.size,
                            expansion |-> r.metadata.expansion]])
  /\ UNCHANGED <<meta, blobs, wal, lock, added, okCount>>

Next ==
  \/ \E t \in Threads, k \in Keys : StartReserve(t, k)
  \/ \E t \in Threads : ReserveEnter(t)
  \/ \E t \in Threads, capacity \in Capacities, error_rate \in ErrorRates,
        expansion \in Expansions : ReserveFinish(t, capacity, error_rate, expansion)
  \/ \E t \in Threads, k \in Keys : StartMAdd(t, k)
  \/ \E t \in Threads, k \in Keys : StartAdd(t, k)
  \/ \E t \in Threads : MAddEnter(t)
  \/ \E t \in Threads, items \in ItemLists : MAddBody(t, items)
  \/ \E t \in Threads, item \in Items : AddBody(t, item)
  \/ \E t \in Threads, k \in Keys, items \in ItemLists :
       \E exists \in ResultVectors(items) : MExistsRead(t, k, items, exists)
  \/ \E t \in Threads, k \in Keys, item \in Items : ExistsRead(t, k, item)
  \/ \E t \in Threads, items \in ItemLists :
       \E exists \in ResultVectors(items) : MExistsProbe(t, items, exists)
  \/ \E t \in Threads, item \in Items : ExistsProbe(t, item)
  \/ \E t \in Threads, k \in Keys : Info(t, k)

Spec == Init /\ [][Next]_vars

\* ------------------------------------------------------- damaged storage
\* every blob the stored metadata counts is stored
ChainsComplete ==
  \A ns_key \in DOMAIN meta :
    \A i \in 1..meta[ns_key].n_filters : getBFKey(ns_key, meta[ns_key], i - 1) \in DOMAIN blobs

\* The operations never remove a blob, so a chain with a missing blob is a store
\* damaged from outside: one blob of a chain of an undamaged store disappears.
LoseBlob(ns_key) ==
  /\ ChainsComplete
  /\ ns_key \in DOMAIN meta
  /\ \E i \in 1..meta[ns_key].n_filters :
       blobs' = [x \in DOMAIN blobs \ {getBFKey(ns_key, meta[ns_key], i - 1)} |-> blobs[x]]
  /\ UNCHANGED <<meta, wal, lock, th, last, calls, added, okCount>>

NextDamaged ==
  \/ Next
  \/ \E ns_key \in NsKeys : LoseBlob(ns_key)

\* the operations over a store that can lose a blob
SpecDamaged == Init /\ [][NextDamaged]_vars

\* ------------------------------------------------------ the append step
\* The chains an MAdd can hold in memory when an item makes it append a filter:
\* scaling, reserved with a valid capacity, filled to GetCapacity().  A chain of
\* expansion 1 gains one filter per base_capacity items, so its filter count
\* reaches the end of the 16-bit field; the counts next to it are among the inputs.
RECURSIVE BytesOfFirst(_, _, _, _)
BytesOfFirst(capacity, error_rate, expansion, n) ==
  IF expansion = 1 THEN n * OptimalNumOfBytes(capacity, error_rate)
  ELSE IF n = 0 THEN 0
  ELSE BytesOfFirst(capacity, error_rate, expansion, n - 1)
         + OptimalNumOfBytes(capacity * Pow(expansion, n - 1), error_rate)

FullChain(capacity, error_rate, expansion, n) ==
  LET md == [version |-> 1, error_rate |-> error_rate, base_capacity |-> capacity,
             expansion |-> expansion, n_filters |-> n, size |-> 0,
             bloom_bytes |-> BytesOfFirst(capacity, error_rate, expansion, n)]
  IN [md EXCEPT !.size = GetCapacity(md)]

FilterCounts(expansion) ==
  (1..MaxFilters) \cup (IF expansion = 1 THEN {kU16Modulus - 2, kU16Modulus - 1} ELSE {})

InitAppend ==
  /\ meta = <<>>
  /\ blobs = <<>>
  /\ wal = <<>>
  /\ lock = [n \in NsKeys |-> NoThread]
  /\ last = IdleThread
  /\ calls = 0
  /\ added = [k \in Keys |-> {}]
  /\ okCount = [k \in Keys |-> 0]
  /\ \E t \in Threads, k \in Keys, capacity \in 1..MaxCapacity, error_rate \in ErrorRates,
        expansion \in Expansions \ {0} :
       \E n \in FilterCounts(expansion) :
         th = [u \in Threads |->
                 IF u = t
                 THEN [IdleThread EXCEPT !.pc = "append", !.op = "MAdd", !.key = k,
                                         !.metadata = FullChain(capacity, error_rate, expansion, n)]
                 ELSE IdleThread]

\* lines 183-197 on the metadata, for an item no filter reports: the capacity
\* test, the append (createBloomFilterInBatch) and the count of the insert
AppendStep(t) ==
  /\ th[t].pc = "append"
  /\ ExceedsCapacity(th[t].metadata) /\ IsScaling(th[t].metadata)
  /\ LET c == createBloomFilterInBatch(AppendNamespacePrefix(th[t].key), th[t].metadata, <<>>)
     IN th' = [th EXCEPT ![t].pc = "appended",
                         ![t].metadata = [c.metadata EXCEPT !.size = @ + 1],
                         ![t].hist = <<[metadata |-> th[t].metadata, bf_data_list |-> <<>>],
                                       [metadata |-> c.metadata, bf_data_list |-> <<c.bf_data>>]>>]
  /\ UNCHANGED <<meta, blobs, wal, lock, last, calls, added, okCount>>

NextAppend == \E t \in Threads : AppendStep(t)

SpecAppend == InitAppend /\ [][NextAppend]_vars

\* ------------------------------------------------------------- scheduling
\* thread t, past the lock in a Reserve or MAdd, returns: the step ReserveFinish,
\* MAddBody or AddBody of t, whatever its arguments and the engine's outcome
Finishes(t) ==
  /\ th[t].pc \in {"reserve", "madd"}
  /\ th' = [th EXCEPT ![t] = IdleThread]

\* fair scheduling: a thread that waits for a lock that stays free acquires it,
\* and a thread that holds the lock runs on to its return; the store may be
\* damaged, so that the return on a missing blob is among the exit paths
FairSpec ==
  /\ SpecDamaged
  /\ \A t \in Threads :
       WF_vars(ReserveEnter(t)) /\ WF_vars(MAddEnter(t)) /\ WF_th(Finishes(t))

\* ------------------------------------------------------------ properties
\* the stored chain of a key, as a reader of the committed store sees it
HasChain(k) == AppendNamespacePrefix(k) \in DOMAIN meta

StoredMetadata(k) == meta[AppendNamespacePrefix(k)]

\* the internal keys stored under the namespaced key and the metadata's version
StoredBlobKeys(k) ==
  {key \in DOMAIN blobs : key[1] = AppendNamespacePrefix(k) /\ key[2] = StoredMetadata(k).version}

ExpectedBlobKeys(k) ==
  {<<AppendNamespacePrefix(k), StoredMetadata(k).version, i>> :
     i \in 0..(StoredMetadata(k).n_filters - 1)}

\* some filter of the list reports the item present
Reported(item, bf_data_list) ==
  \E ii \in 1..Len(bf_data_list) : HashBits(Hash(item), bf_data_list[ii]) \subseteq bf_data_list[ii].bits

StoredBlobList(k) ==
  [i \in 1..StoredMetadata(k).n_filters |->
     blobs[<<AppendNamespacePrefix(k), StoredMetadata(k).version, i - 1>>]]

RECURSIVE SumBytes(_, _)
SumBytes(bf_data_list, n) ==
  IF n = 0 THEN 0 ELSE SumBytes(bf_data_list, n - 1) + bf_data_list[n].nbytes

\* the call that returned last is an MAdd whose loop ran; Pre(i) and Post(i) are
\* the chain it held in memory before and after item i
MAddRan == last.op \in {"MAdd", "Add"} /\ last.hist # <<>>
Pre(i) == last.hist[i]
Post(i) == last.hist[i + 1]

\* thread t returns from its call in this step
ReturnsFrom(t, pc) == th[t].pc = pc /\ th'[t].pc = "idle"

\* C1: no false negatives.  Every item a successful MAdd answered Ok is reported
\* present by the committed chain of its key from then on, and every MExists
\* that returns reports present each item that had been answered Ok before it
\* started, whatever MAdd calls (appends included) ran in between.
C1_NoFalseNegatives ==
  /\ \A k \in Keys : \A x \in added[k] :
       /\ HasChain(k)
       /\ ExpectedBlobKeys(k) \subseteq DOMAIN blobs
       /\ Reported(x, StoredBlobList(k))
  /\ last.op \in {"MExists", "Exists"} =>
       /\ last.status = kOK
       /\ \A i \in 1..Len(last.items) : last.items[i] \in last.mustSee => last.exists[i]

\* an MExists returned from a chain that has grown, finding an item added before it
C1_Witness ==
  /\ last.op = "MExists" /\ Len(last.items) = 2
  /\ last.metadata.n_filters >= 2
  /\ \E i \in 1..Len(last.items) : last.items[i] \in last.mustSee /\ last.exists[i]

\* C2: every mutating operation commits at most one write batch, and it does so
\* as its last access to the store: no call that is still running has already
\* committed (so no reader sees a chain created by an MAdd before its inserts).
C2_SingleAtomicCommit ==
  /\ last.commits <= 1
  /\ \A t \in Threads : th[t].commits = 0

\* C3: a stored chain with n_filters = N has exactly the blobs 0..N-1 under its version.
C3_ExactlyNBlobs ==
  \A k \in Keys : HasChain(k) => StoredBlobKeys(k) = ExpectedBlobKeys(k)

\* a committed chain of valid capacity that has grown twice
C3_Witness ==
  \E k \in Keys : HasChain(k) /\ StoredMetadata(k).n_filters = 3 /\ StoredMetadata(k).base_capacity >= 1

\* C4: bloom_bytes is the sum of the byte lengths of the stored blobs.
C4_BloomBytesIsSum ==
  \A k \in Keys :
    HasChain(k) /\ ExpectedBlobKeys(k) \subseteq DOMAIN blobs =>
      StoredMetadata(k).bloom_bytes = SumBytes(StoredBlobList(k), StoredMetadata(k).n_filters)

\* a committed chain after an append, holding items
C4_Witness ==
  \E k \in Keys :
    /\ HasChain(k)
    /\ StoredMetadata(k).n_filters = 2
    /\ StoredMetadata(k).size = 3
    /\ StoredMetadata(k).bloom_bytes = 2 * kBytesPerBlock

\* C5: size never exceeds GetCapacity(), and size is the number of Ok results
\* that successful MAdd/Add calls returned on the key.
C5_SizeWithinCapacity ==
  \A k \in Keys :
    HasChain(k) =>
      /\ StoredMetadata(k).size <= GetCapacity(StoredMetadata(k))
      /\ StoredMetadata(k).size = okCount[k]

C6_ReserveStep(t) ==
  LET ns_key == AppendNamespacePrefix(th[t].key)
  IN ReturnsFrom(t, "reserve") =>
       IF ns_key \in DOMAIN meta
       THEN /\ last'.status = kInvalidArgument
            /\ UNCHANGED <<meta, blobs, wal>>
       ELSE IF last'.status = kOK
       THEN /\ ns_key \in DOMAIN meta'
            /\ meta'[ns_key].n_filters = 1
            /\ meta'[ns_key].size = 0
            /\ {key \in DOMAIN blobs' : key[1] = ns_key} = {<<ns_key, meta'[ns_key].version, 0>>}
            /\ blobs'[<<ns_key, meta'[ns_key].version, 0>>].bits = {}
       ELSE UNCHANGED <<meta, blobs, wal>>

\* C6: a Reserve that finds metadata fails with InvalidArgument and changes
\* nothing; a Reserve changes the store only on an absent key, and what it then
\* stores is a chain of one empty filter with size 0.
C6_ReserveOnlyOnAbsentKey == [][\A t \in Threads : C6_ReserveStep(t)]_vars

\* a Reserve was refused on a chain that an MAdd had created and filled
C6_Witness ==
  /\ last.op = "Reserve" /\ last.status = kInvalidArgument
  /\ HasChain(last.key)
  /\ StoredMetadata(last.key).base_capacity = kBFDefaultInitCapacity
  /\ StoredMetadata(last.key).size > 0

ValidErrorRate(error_rate) == 0 < error_rate /\ error_rate < 100

\* C7: Reserve refuses capacity = 0 and an error rate outside (0, 1) with
\* InvalidArgument, so no stored chain has such parameters.
C7_ReserveValidates ==
  /\ \A k \in Keys :
       HasChain(k) =>
         StoredMetadata(k).base_capacity >= 1 /\ ValidErrorRate(StoredMetadata(k).error_rate)
  /\ last.op = "Reserve" /\ (last.capacity = 0 \/ ~ValidErrorRate(last.error_rate))
       => last.status = kInvalidArgument

\* the loop's answer for item i as the claim states it: Ok with size advanced
\* when no filter reported it, Exists with size kept when one did
C8_ItemAsClaimed(i) ==
  IF Reported(last.items[i], Pre(i).bf_data_list)
  THEN last.rets[i] = kExist /\ Post(i).metadata.size = Pre(i).metadata.size
  ELSE last.rets[i] = kOk /\ Post(i).metadata.size = Pre(i).metadata.size + 1

C8_CallShape ==
  /\ Len(last.rets) = Len(last.items)
  /\ Len(last.hist) = Len(last.items) + 1
  /\ \A i, j \in 1..Len(last.items) :
       i < j /\ last.items[i] = last.items[j] /\ last.rets[i] = kOk => last.rets[j] = kExist
  /\ Last(last.hist).metadata.size = last.hist[1].metadata.size + OkResults(last.rets)

\* C8 as stated: one result per item, in order, against the chain the earlier
\* items left; every item no filter reports present is answered Ok and counted,
\* a repeated item is answered Exists, size grows by the number of Ok results.
C8_OkUnlessReported ==
  MAddRan => C8_CallShape /\ \A i \in 1..Len(last.items) : C8_ItemAsClaimed(i)

RefusedAsFull(md) == md.expansion = 0 /\ md.size + 1 > GetCapacity(md)

\* C8 amended: as C8, except that an item no filter reports present is answered
\* Full and not counted when the chain is non-scaling and size + 1 > GetCapacity().
C8_OkUnlessReportedOrFull ==
  MAddRan =>
    /\ C8_CallShape
    /\ \A i \in 1..Len(last.items) :
         IF ~Reported(last.items[i], Pre(i).bf_data_list) /\ RefusedAsFull(Pre(i).metadata)
         THEN last.rets[i] = kFull /\ Post(i).metadata.size = Pre(i).metadata.size
         ELSE C8_ItemAsClaimed(i)

\* one call answered Ok and then Exists for the same item
C8_Witness ==
  /\ MAddRan /\ last.status = kOK
  /\ Len(last.items) = 2 /\ last.items[1] = last.items[2]
  /\ last.rets = <<kOk, kExist>>

C9_FullStep(t) ==
  ReturnsFrom(t, "madd") /\ last'.hist # <<>> =>
    /\ \A i \in 1..Len(last'.items) :
         LET pre == last'.hist[i]
         IN pre.metadata.expansion = 0 /\ pre.metadata.size = GetCapacity(pre.metadata)
              /\ ~Reported(last'.items[i], pre.bf_data_list)
            => last'.rets[i] = kFull /\ last'.hist[i + 1] = pre
    /\ (\A i \in 1..Len(last'.items) : last'.rets[i] # kOk) =>
         /\ meta' = meta /\ blobs' = blobs
         /\ last'.metadata = th[t].metadata
    /\ last'.status = kOK <=> wal' # wal
    /\ last'.status \in {kOK, kIOError}

C9_NonScalingOneFilter ==
  \A k \in Keys : HasChain(k) /\ StoredMetadata(k).expansion = 0 => StoredMetadata(k).n_filters = 1

\* C9: on a non-scaling chain with size = GetCapacity() an item no filter reports
\* gets Full and leaves the in-memory chain as it was; a call that inserted
\* nothing leaves metadata and blobs as they were and returns OK unless the
\* engine refuses the write; a non-scaling chain always has one filter.
C9_NonScalingFull == []C9_NonScalingOneFilter /\ [][\A t \in Threads : C9_FullStep(t)]_vars

\* a call on a full non-scaling chain of capacity 1 answered Full and returned OK
C9_Witness ==
  /\ MAddRan /\ last.status = kOK
  /\ last.metadata.expansion = 0 /\ last.metadata.base_capacity = 1
  /\ last.metadata.size = 1
  /\ \E i \in 1..Len(last.rets) : last.rets[i] = kFull

\* capacity of the first n filters of a chain
CapacityOfFirst(md, n) == SumCapacity(md, n)

C10_ItemAppends(i) ==
  LET pre == Pre(i)
      post == Post(i)
      grows == post.metadata.n_filters # pre.metadata.n_filters
  IN /\ grows <=> /\ ~Reported(last.items[i], pre.bf_data_list)
                  /\ pre.metadata.size = GetCapacity(pre.metadata)
     /\ grows =>
          /\ post.metadata.n_filters = pre.metadata.n_filters + 1
          /\ Len(post.bf_data_list) = Len(pre.bf_data_list) + 1
          /\ post.metadata.bloom_bytes = pre.metadata.bloom_bytes + Last(post.bf_data_list).nbytes
          /\ last.rets[i] = kOk

\* C10: on a scaling chain an iteration appends a filter exactly when no filter
\* reports the item and size = GetCapacity(); it then raises n_filters by one and
\* bloom_bytes by the new blob's length and answers Ok; so a stored chain with
\* more than one filter holds more items than its first n_filters - 1 filters take.
C10_AppendExactlyAtCapacity ==
  /\ MAddRan /\ last.hist[1].metadata.expansion # 0 =>
       \A i \in 1..Len(last.items) : C10_ItemAppends(i)
  /\ \A k \in Keys :
       HasChain(k) /\ StoredMetadata(k).expansion # 0 /\ StoredMetadata(k).n_filters > 1 =>
         StoredMetadata(k).size > CapacityOfFirst(StoredMetadata(k), StoredMetadata(k).n_filters - 1)

\* a step of a read-only call: an MExists/Exists step, or a call that starts and
\* returns in one step (MExists/Exists on an absent key, Info)
ReadOnlyReturn == calls' = calls + 1 /\ th' = th

ReadOnlyStep ==
  ReadOnlyReturn \/ \E t \in Threads : th'[t] # th[t] /\ "mexists" \in {th[t].pc, th'[t].pc}

C11_ReadStep ==
  /\ ReadOnlyStep => UNCHANGED <<meta, blobs, wal, lock, added, okCount>>
  /\ ReadOnlyReturn /\ ~HasChain(last'.key) =>
       /\ last'.op \in {"MExists", "Exists"} =>
            /\ last'.status = kOK
            /\ Len(last'.exists) = Len(last'.items)
            /\ \A i \in 1..Len(last'.exists) : ~last'.exists[i]
       /\ last'.op = "Info" => last'.status = kNotFound /\ last'.info = ZeroInfo
       /\ \A k \in Keys : ~HasChain(k) => AppendNamespacePrefix(k) \notin DOMAIN meta'

\* C11: the read-only operations change nothing.  MExists/Exists on an absent key
\* answers false for every item with status OK, Info on an absent key fails with
\* NotFound, and no step of an MExists, Exists or Info changes the store, so an
\* absent key stays absent.
C11_ReadOnlyOperations == [][C11_ReadStep]_vars

\* an MExists of two items returned on a store that holds no chain
C11_Witness ==
  /\ last.op = "MExists" /\ Len(last.items) = 2
  /\ ~HasChain(last.key)
  /\ last.status = kOK /\ last.exists = <<FALSE, FALSE>>

\* the parameters a chain is created with
Parameters(md) ==
  [error_rate |-> md.error_rate, base_capacity |-> md.base_capacity,
   expansion |-> md.expansion, version |-> md.version]

C12_Step(k) ==
  LET ns_key == AppendNamespacePrefix(k)
  IN /\ HasChain(k) =>
          /\ ns_key \in DOMAIN meta'
          /\ Parameters(meta'[ns_key]) = Parameters(meta[ns_key])
     /\ ~HasChain(k) /\ ns_key \in DOMAIN meta' =>
          /\ meta'[ns_key].n_filters = 1 /\ meta'[ns_key].size = 0
          /\ \/ \E t \in Threads :
                   /\ th[t].pc = "wait" /\ th[t].op \in {"MAdd", "Add"} /\ th'[t].pc = "madd"
                   /\ meta'[ns_key].error_rate = kBFDefaultErrorRate
                   /\ meta'[ns_key].base_capacity = kBFDefaultInitCapacity
                   /\ meta'[ns_key].expansion = kBFDefaultExpansion
             \/ \E t \in Threads :
                   /\ ReturnsFrom(t, "reserve") /\ last'.status = kOK
                   /\ meta'[ns_key].error_rate = last'.error_rate
                   /\ meta'[ns_key].base_capacity = last'.capacity
                   /\ meta'[ns_key].expansion = last'.expansion

\* C12: a chain is created once per key.  An MAdd on an absent key creates it with
\* the defaults and one filter, a Reserve creates it with its arguments, and no
\* step changes the error rate, base capacity, expansion (or version) of a
\* stored chain.
C12_CreatedOnceParametersFixed == [][\A k \in Keys : C12_Step(k)]_vars

\* a chain reserved with its own parameters has been grown by a later MAdd
C12_Witness ==
  /\ MAddRan /\ last.status = kOK /\ HasChain(last.key)
  /\ StoredMetadata(last.key).base_capacity = 1
  /\ StoredMetadata(last.key).expansion = 1
  /\ StoredMetadata(last.key).error_rate = 100
  /\ StoredMetadata(last.key).n_filters = 2

\* the answer of a probe of the items against a list of blobs
AnswerOn(items, bf_data_list) == [i \in 1..Len(items) |-> Reported(items[i], bf_data_list)]

C13_ProbeStep(t) ==
  ReturnsFrom(t, "mexists") /\ last'.status = kOK =>
    last'.exists \in {AnswerOn(last'.items, th[t].seen),
                      AnswerOn(last'.items, StoredBlobList(th[t].key))}

\* C13: an MExists answers from one committed state of the chain: its answer is
\* the answer on the chain as it was stored when the call read the metadata
\* (before an interleaved MAdd) or as it is stored when the call reads the blobs
\* (after it), never a mix of the two.
C13_ConsistentSnapshot == [][\A t \in Threads : C13_ProbeStep(t)]_vars

\* thread t is between the metadata read and the return of a Reserve/MAdd on k
Mutating(t, k) == th[t].pc \in {"reserve", "madd"} /\ th[t].key = k

C14_Exclusive ==
  \A k \in Keys :
    /\ \A t, u \in Threads : Mutating(t, k) /\ Mutating(u, k) => t = u
    /\ \A t \in Threads :
         Mutating(t, k) =>
           /\ lock[AppendNamespacePrefix(k)] = t
           /\ th[t].pc = "madd" => HasChain(k) /\ th[t].metadata = StoredMetadata(k)
           /\ th[t].pc = "reserve" => (th[t].status = kNotFound <=> ~HasChain(k))
    /\ HasChain(k) => StoredMetadata(k).size = okCount[k]

C14_OthersKeepStore(t) ==
  (\E k \in Keys : Mutating(t, k)) /\ th'[t] = th[t] => UNCHANGED <<meta, blobs, wal, lock>>

\* C14: the key's lock serializes Reserve and MAdd.  At most one of them is between
\* its metadata read and its return, it holds the lock, what it read is what the
\* store holds (no other thread's step changes the store meanwhile, so the store
\* ends as if the calls had run one after another in lock order), and the stored
\* size is the number of Ok results of the calls that succeeded.
C14_SerializedByLock == []C14_Exclusive /\ [][\A t \in Threads : C14_OthersKeepStore(t)]_vars

\* an MAdd waits for the lock while another MAdd on a filled chain holds it
C14_Witness ==
  \E t, u \in Threads :
    /\ th[t].pc = "madd" /\ th[u].pc = "wait" /\ th[u].op = "MAdd"
    /\ th[t].key = th[u].key
    /\ StoredMetadata(th[t].key).size >= 1

C15_Step(t) ==
  ReturnsFrom(t, "madd") /\ last'.hist # <<>> =>
    /\ (\A i \in 1..Len(last'.rets) : last'.rets[i] # kOk) => UNCHANGED <<meta, blobs, wal>>
    /\ wal' # wal =>
         /\ wal' = Append(wal, <<"insert">>)
         /\ meta'[AppendNamespacePrefix(th[t].key)].size > th[t].metadata.size

\* C15: an MAdd whose loop answered no item Ok (no items, or only Exists and Full)
\* writes nothing: metadata, blobs and log are as before; the log gains an
\* ["insert"] entry only from an MAdd that increased size.
C15_NoInsertNoWrite == [][\A t \in Threads : C15_Step(t)]_vars

kCorruptedChain == "CorruptedChain"

\* the metadata thread t holds counts a blob that the store does not hold
MissingBlobFor(t) ==
  \E i \in 1..th[t].metadata.n_filters :
    getBFKey(AppendNamespacePrefix(th[t].key), th[t].metadata, i - 1) \notin DOMAIN blobs

C16_Step(t) ==
  (ReturnsFrom(t, "madd") \/ ReturnsFrom(t, "mexists")) /\ MissingBlobFor(t) =>
    /\ last'.status = kCorruptedChain
    /\ last'.hist = <<>>
    /\ UNCHANGED <<meta, blobs, wal>>

\* C16: an MAdd or MExists that finds the metadata but not every blob the
\* metadata counts fails with CorruptedChain, runs no item and writes nothing.
C16_MissingBlobIsCorruptedChain == [][\A t \in Threads : C16_Step(t)]_vars

C17_Step(t) ==
  ReturnsFrom(t, "madd") /\ last'.status = kOK =>
    LET ns_key == AppendNamespacePrefix(th[t].key)
        final == Last(last'.hist)
    IN /\ final.metadata = last'.metadata
       /\ meta'[ns_key] = final.metadata
       /\ Len(final.bf_data_list) = final.metadata.n_filters
       /\ \A i \in 1..final.metadata.n_filters :
            /\ getBFKey(ns_key, final.metadata, i - 1) \in DOMAIN blobs'
            /\ blobs'[getBFKey(ns_key, final.metadata, i - 1)] = final.bf_data_list[i]

\* C17: when an MAdd commits, the stored metadata and the stored blob of every
\* filter index are the metadata and buffers the call ended with in memory, also
\* when it appended filters, so every insert it answered Ok is in the stored blobs.
C17_CommitEqualsMemory == [][\A t \in Threads : C17_Step(t)]_vars

\* an MAdd committed after inserting into the old newest filter, appending a
\* filter and inserting into that
C17_Witness ==
  /\ MAddRan /\ last.status = kOK
  /\ last.rets = <<kOk, kOk>>
  /\ last.metadata.base_capacity >= 1
  /\ last.metadata.n_filters = last.hist[1].metadata.n_filters + 1
  /\ Pre(2).metadata.n_filters = last.hist[1].metadata.n_filters

C18_BlobsGrow ==
  \A bf_key \in DOMAIN blobs :
    /\ bf_key \in DOMAIN blobs'
    /\ blobs'[bf_key].nbytes = blobs[bf_key].nbytes
    /\ blobs[bf_key].bits \subseteq blobs'[bf_key].bits

C18_OlderUntouched(t) ==
  ReturnsFrom(t, "madd") =>
    \A i \in 1..(th[t].metadata.n_filters - 1) :
      LET bf_key == getBFKey(AppendNamespacePrefix(th[t].key), th[t].metadata, i - 1)
      IN bf_key \in DOMAIN blobs /\ blobs'[bf_key] = blobs[bf_key]

\* C18: no step shortens, lengthens or removes a stored blob or clears a bit of
\* it, and an MAdd leaves every blob older than the one that was newest at its
\* entry exactly as it was.
C18_BlobsOnlyGrow == [][C18_BlobsGrow /\ \A t \in Threads : C18_OlderUntouched(t)]_vars

\* an MAdd inserted into a chain that had two filters holding items at its entry
C18_Witness ==
  /\ MAddRan /\ last.status = kOK
  /\ last.hist[1].metadata.n_filters = 2
  /\ \A i \in 1..2 : last.hist[1].bf_data_list[i].bits # {}
  /\ \E i \in 1..Len(last.rets) : last.rets[i] = kOk

C19_HeldOnlyWhileRunning ==
  \A ns_key \in NsKeys :
    lock[ns_key] # NoThread =>
      /\ th[lock[ns_key]].pc \in {"reserve", "madd"}
      /\ AppendNamespacePrefix(th[lock[ns_key]].key) = ns_key

C19_Completes(t) == (th[t].pc \in {"wait", "reserve", "madd"}) ~> (th[t].pc = "idle")

C20_Appended(t) ==
  th[t].pc = "appended" =>
    LET before == th[t].hist[1].metadata
        after == th[t].hist[2].metadata
    IN /\ GetCapacity(after) >= GetCapacity(before) + 1
       /\ before.size + 1 <= GetCapacity(after)
       /\ th[t].metadata.size <= GetCapacity(th[t].metadata)

\* C20: on a scaling chain filled to its capacity, appending one filter raises
\* GetCapacity() by at least 1, so that size + 1 <= GetCapacity() right after the
\* append and the item fits, also at the end of the 16-bit n_filters field.
C20_AppendRaisesCapacity == \A t \in Threads : C20_Appended(t)

====
